---------------------------- MODULE Spec2Model ----------------------------
(***************************************************************************)
(* Model of the auto-update server: the ReleaseManager's two asset maps,   *)
(* the poller that refreshes them from the upstream release feed           *)
(* (UpdateAssetsMap / getReleases / pushAsset) and the resolvers that       *)
(* answer client queries (CheckForUpdate / getProductUpdate /              *)
(* lookupAssetWithChecksum), all sharing one readers-writer lock.          *)
(*                                                                         *)
(* Conventions.  A Go pointer is a sequence of length at most one: <<>> is *)
(* nil and <<x>> points to x.  Assets are never written after pushAsset    *)
(* has stored them, so an *Asset in a map is modelled by its value.  A Go  *)
(* map is a function whose DOMAIN is the set of keys present; a missing    *)
(* key reads as the zero value (nil).                                      *)
(***************************************************************************)
EXTENDS Integers, Sequences, FiniteSets, TLC

(***************************************************************************)
(* Bounds of the model.                                                    *)
(***************************************************************************)
MaxCycles == 2
MaxFeed == 3
PerPage == 2
NumResolvers == 1
NumCallers == 2
MaxPolls == 3

(***************************************************************************)
(* Semantic versions (github.com/blang/semver).  A Version is the parsed   *)
(* structure; strings are the literals below.  Parse accepts exactly       *)
(* MAJOR.MINOR.PATCH[-pre][+build].                                        *)
(***************************************************************************)
Ver(ma, mi, pa, pre, build) ==
    [major |-> ma, minor |-> mi, patch |-> pa, pre |-> pre, build |-> build]

emptyVersion == Ver(0, 0, 0, "", "")

VersionStrings == {"0.0.0", "1.0.0", "1.0.0+b", "2.0.0", "banana", ""}

SemverParse(s) ==
    CASE s = "0.0.0"   -> [ok |-> TRUE, v |-> Ver(0, 0, 0, "", "")]
      [] s = "1.0.0"   -> [ok |-> TRUE, v |-> Ver(1, 0, 0, "", "")]
      [] s = "1.0.0+b" -> [ok |-> TRUE, v |-> Ver(1, 0, 0, "", "b")]
      [] s = "2.0.0"   -> [ok |-> TRUE, v |-> Ver(2, 0, 0, "", "")]
      [] OTHER         -> [ok |-> FALSE, v |-> emptyVersion]

\* Version.String(): the canonical text, which Parse maps back to the value.
VString(v) ==
    CHOOSE s \in VersionStrings : SemverParse(s).ok /\ SemverParse(s).v = v

\* Version.Compare: major, minor, patch, then pre-release (a version without
\* a pre-release is the greater one); build metadata is ignored.
VCompare(a, b) ==
    IF a.major /= b.major THEN (IF a.major > b.major THEN 1 ELSE -1)
    ELSE IF a.minor /= b.minor THEN (IF a.minor > b.minor THEN 1 ELSE -1)
    ELSE IF a.patch /= b.patch THEN (IF a.patch > b.patch THEN 1 ELSE -1)
    ELSE IF a.pre = b.pre THEN 0
    ELSE IF a.pre = "" THEN 1
    ELSE -1

VEQ(a, b) == VCompare(a, b) = 0
VGT(a, b) == VCompare(a, b) = 1
VLTE(a, b) == VCompare(a, b) <= 0

(***************************************************************************)
(* Asset names.  A filename is the sequence of its "_"-separated fields,   *)
(* the last of which may carry a suffix field.                             *)
(***************************************************************************)
OSNames == {"darwin", "windows", "linux"}
ArchNames == {"arm", "386", "amd64"}

isUpdateAsset(s) ==
    /\ Len(s) >= 3
    /\ s[1] = "update"
    /\ s[2] \in OSNames
    /\ s[3] \in ArchNames

getAssetInfo(s) ==
    IF isUpdateAsset(s)
    THEN [ok |-> TRUE, OS |-> s[2], Arch |-> s[3]]
    ELSE [ok |-> FALSE, OS |-> "", Arch |-> ""]

(***************************************************************************)
(* Go maps.                                                                *)
(***************************************************************************)
EmptyMap == << >>
Has(m, k) == k \in DOMAIN m
Put(m, k, x) == [y \in (DOMAIN m) \cup {k} |-> IF y = k THEN x ELSE m[y]]
Sub(m, k) == IF Has(m, k) THEN m[k] ELSE EmptyMap

(***************************************************************************)
(* The upstream release feed.  A remote release carries an id, a tag name, *)
(* an archive URL and its assets (id, name, download URL).  The feed is a  *)
(* sequence of distinct published releases, served PerPage at a time.      *)
(***************************************************************************)
RemoteAsset(id, name, url) == [ID |-> id, Name |-> name, BrowserDownloadURL |-> url]

RemoteRelease(id, tag, assets) ==
    [ID |-> id, TagName |-> tag, ZipballURL |-> "zip", Assets |-> assets]

ReleasePool ==
    { RemoteRelease(1, "1.0.0",
          << RemoteAsset(11, <<"update", "linux", "amd64">>, "u1"),
             RemoteAsset(12, <<"notes", "txt">>, "n1") >>),
      RemoteRelease(2, "2.0.0",
          << RemoteAsset(21, <<"update", "linux", "amd64">>, "u2"),
             RemoteAsset(22, <<"update", "darwin", "amd64", "dmg">>, "u3") >>),
      RemoteRelease(3, "banana",
          << RemoteAsset(31, <<"update", "linux", "amd64">>, "u4") >>),
      RemoteRelease(4, "0.0.0",
          << RemoteAsset(41, <<"update", "linux", "amd64">>, "u5") >>) }

RECURSIVE FeedsOfLen(_)
FeedsOfLen(n) ==
    IF n = 0 THEN { << >> }
    ELSE { Append(f, r) : f \in FeedsOfLen(n - 1), r \in ReleasePool } 

Distinct(f) == \A a, b \in 1..Len(f) : f[a].ID = f[b].ID => a = b

Feeds == UNION { { f \in FeedsOfLen(n) : Distinct(f) } : n \in 0..MaxFeed }

\* client.Repositories.ListReleases(owner, repo, {Page: page}) on a feed.
ListReleases(feed, page) ==
    SubSeq(feed, (page - 1) * PerPage + 1,
           IF page * PerPage < Len(feed) THEN page * PerPage ELSE Len(feed))

LastPage(feed) == (Len(feed) + PerPage - 1) \div PerPage

(***************************************************************************)
(* Release, Asset: the ReleaseManager's own records.                       *)
(***************************************************************************)
NewAsset(a) ==
    [id |-> a.ID, v |-> emptyVersion, Name |-> a.Name,
     URL |-> a.BrowserDownloadURL, LocalFile |-> "", Checksum |-> "",
     Signature |-> "", OS |-> "", Arch |-> ""]

NewRelease(r, v) ==
    [id |-> r.ID, URL |-> r.ZipballURL, Version |-> v,
     Assets |-> [k \in 1..Len(r.Assets) |-> NewAsset(r.Assets[k])]]

\* The body of getReleases' inner loop: the semver-tagged releases of one
\* page, appended to releases.
RECURSIVE AppendPage(_, _, _)
AppendPage(releases, rels, k) ==
    IF k > Len(rels) THEN releases
    ELSE LET parsed == SemverParse(rels[k].TagName)
         IN IF ~parsed.ok
            THEN AppendPage(releases, rels, k + 1)
            ELSE AppendPage(Append(releases, NewRelease(rels[k], parsed.v)),
                            rels, k + 1)

\* sort.Sort(sort.Reverse(releasesByID(releases))): descending by id.
RECURSIVE InsertByID(_, _)
InsertByID(sorted, r) ==
    IF sorted = << >> THEN << r >>
    ELSE IF r.id > Head(sorted).id THEN << r >> \o sorted
    ELSE << Head(sorted) >> \o InsertByID(Tail(sorted), r)

RECURSIVE SortReverseByID(_)
SortReverseByID(releases) ==
    IF releases = << >> THEN << >>
    ELSE InsertByID(SortReverseByID(Tail(releases)), Head(releases))

\* make([]Release, 0, len(rels)) inside the page loop: every non-empty page
\* starts a fresh slice, so the releases of the earlier pages are dropped.
PageBuffer(releases) == << >>

\* Variant: a failed request ends the paging like an empty page does.
RECURSIVE getReleasesBreakOnError(_, _, _, _)
getReleasesBreakOnError(feed, failAt, page, releases) ==
    LET rels == ListReleases(feed, page)
    IN IF page = failAt \/ Len(rels) = 0
       THEN [err |-> "", releases |-> SortReverseByID(releases)]
       ELSE getReleasesBreakOnError(feed, failAt, page + 1,
                                    AppendPage(PageBuffer(releases), rels, 1))

\* getReleases: pages 1, 2, ... until an empty page; failAt is the page whose
\* request fails (0: none).
RECURSIVE getReleasesFrom(_, _, _, _)
getReleasesFrom(feed, failAt, page, releases) ==
    IF page = failAt THEN [err |-> "list", releases |-> << >>]
    ELSE LET rels == ListReleases(feed, page)
         IN IF Len(rels) = 0
            THEN [err |-> "", releases |-> SortReverseByID(releases)]
            ELSE getReleasesFrom(feed, failAt, page + 1,
                                 AppendPage(PageBuffer(releases), rels, 1))

getReleases(feed, failAt) == getReleasesFrom(feed, failAt, 1, << >>)

(***************************************************************************)
(* Hashing and signing (checksumForFile, signatureForFile).  A downloaded  *)
(* file is identified by its content; the checksum is the hex SHA-256 of   *)
(* the content and the signature the hex RSA-PKCS1v15 signature of that    *)
(* digest, both determined by the content.                                 *)
(***************************************************************************)
Contents == {"c1", "c2"}

checksumForFile(c) ==
    CASE c = "c1" -> "aaaa"
      [] c = "c2" -> "bbbb"

signatureForFile(c) ==
    CASE c = "c1" -> "sigaaaa"
      [] c = "c2" -> "sigbbbb"

\* What the environment does to one pushAsset call: the step that fails
\* ("" when none does) and the content the download yields.
PushIO == [fail : {"", "download", "checksum", "signature"}, content : Contents]

(***************************************************************************)
(* State.                                                                  *)
(***************************************************************************)
VARIABLES
    updateAssetsMap,   \* g.updateAssetsMap: os -> arch -> version string -> Asset
    latestAssetsMap,   \* g.latestAssetsMap: os -> arch -> Asset
    mu,                \* g.mu: [writer, readers]
    ppc,               \* poller: "sleep", "list", "loop", "push", "stopped"
    rs, ri, rj,        \* UpdateAssetsMap: rs and the loop indices i, j
    perr,              \* the error of the last UpdateAssetsMap call ("" for nil)
    cycles,            \* number of UpdateAssetsMap calls started
    failedAt,          \* history: the page whose request failed in the last call (0: none)
    startUpdate,       \* history: updateAssetsMap when the last call started
    startLatest,       \* history: latestAssetsMap when the last call started
    logged,            \* the errors backgroundUpdate has logged, oldest first
    listed,            \* history: the upstream listing of the last call, when recorded
    qpc,               \* resolver r: its position in CheckForUpdate
    qin,               \* history: the *Params as the caller passed it
    qp,                \* p, the *Params of r's call (after the in-place writes)
    qupdate,           \* update, the *Asset getProductUpdate returned
    qcurrent,          \* current, the *Asset lookupAssetWithChecksum returned
    qpatch,            \* patch, the *Patch generatePatch returned
    qres,              \* the *Result returned
    qerr,              \* the error returned ("" for nil)
    qseen,             \* history: the states of r's platform during the call
    qsearched,         \* history: the version map lookupAssetWithChecksum read
    patchFiles,        \* the patch files in the patch directory
    qran,              \* history: r's generatePatch call computed a patch
    qlead              \* history: the resolver whose computation r's call waited for (0: none)

pollerVars == <<ppc, rs, ri, rj, perr, cycles, failedAt, startUpdate, startLatest,
               logged, listed>>
catalogVars == <<updateAssetsMap, latestAssetsMap>>
patchVars == <<patchFiles, qran, qlead>>
resolverVars == <<qpc, qin, qp, qupdate, qcurrent, qpatch, qres, qerr, qseen, qsearched,
                  patchVars>>

\* The requests of the run, one goroutine of the HTTP server each.
Resolvers == DOMAIN qpc

\* main: the first UpdateAssetsMap call returns before the HTTP server and the
\* background poller start.
Serving == cycles > 1 \/ (cycles = 1 /\ ppc = "sleep")

\* What a reader of (os, arch) can see: the latest asset and the version map.
PlatformState(um, lm, os, arch) ==
    [latest |-> IF Has(Sub(lm, os), arch) THEN << lm[os][arch] >> ELSE << >>,
     versions |-> Sub(Sub(um, os), arch)]

\* r is past validation and has not yet returned.
InCall(r) == qpc[r] \in {"get", "getLocked", "lookup", "lookupLocked", "patch",
                          "joined", "bsdiff"}

\* Variant: the version map of the platform is rebuilt around the new asset.
StoreVersionFresh(um, os, arch, asset) ==
    Put(um, os, Put(Sub(um, os), arch, Put(EmptyMap, VString(asset.v), asset)))

(***************************************************************************)
(* pushAsset, between Lock and the deferred Unlock.                        *)
(***************************************************************************)
\* "Pushing version": g.updateAssetsMap[os][arch][version.String()] = asset
StoreVersion(um, os, arch, asset) ==
    Put(um, os, Put(Sub(um, os), arch,
                    Put(Sub(Sub(um, os), arch), VString(asset.v), asset)))

\* Variant: the incoming asset replaces the latest one whatever its version.
ReplacesLatestAlways(lm, os, arch, asset) == TRUE

\* "Setting latest version": set when absent or when asset.v is greater.
ReplacesLatest(lm, os, arch, asset) ==
    \/ ~Has(Sub(lm, os), arch)
    \/ VGT(asset.v, lm[os][arch].v)

StoreLatest(lm, os, arch, asset) ==
    IF ReplacesLatest(lm, os, arch, asset)
    THEN Put(lm, os, Put(Sub(lm, os), arch, asset))
    ELSE Put(lm, os, Sub(lm, os))

\* Variant: the version is stored before the file is downloaded.
pushAssetStoresFirst(um, lm, os, arch, asset0, io) ==
    LET asset1 == [asset0 EXCEPT !.OS = os, !.Arch = arch]
        stored == StoreVersion(um, os, arch, asset1)
    IN IF VEQ(asset1.v, emptyVersion)
       THEN [err |-> "Missing asset version.", um |-> um, lm |-> lm]
       ELSE IF io.fail /= "" THEN [err |-> io.fail, um |-> stored, lm |-> lm]
       ELSE LET asset == [asset1 EXCEPT
                              !.Checksum = checksumForFile(io.content),
                              !.Signature = signatureForFile(io.content)]
            IN [err |-> "",
                um |-> StoreVersion(um, os, arch, asset),
                lm |-> StoreLatest(lm, os, arch, asset)]

pushAsset(um, lm, os, arch, asset0, io) ==
    LET asset1 == [asset0 EXCEPT !.OS = os, !.Arch = arch]
        unchanged(e) == [err |-> e, um |-> um, lm |-> lm]
    IN IF VEQ(asset1.v, emptyVersion) THEN unchanged("Missing asset version.")
       ELSE IF io.fail = "download" THEN unchanged("download")
       ELSE IF io.fail = "checksum" THEN unchanged("checksum")
       ELSE IF io.fail = "signature" THEN unchanged("signature")
       ELSE LET asset == [asset1 EXCEPT
                              !.Checksum = checksumForFile(io.content),
                              !.Signature = signatureForFile(io.content)]
            IN [err |-> "",
                um |-> StoreVersion(um, os, arch, asset),
                lm |-> StoreLatest(lm, os, arch, asset)]

(***************************************************************************)
(* UpdateAssetsMap.                                                        *)
(***************************************************************************)
\* The position of the next asset the nested loops visit, from (i, j) on;
\* i > Len(releases) when there is none.
RECURSIVE LoopPos(_, _, _)
LoopPos(releases, i, j) ==
    IF i > Len(releases) THEN [i |-> i, j |-> 1]
    ELSE IF j > Len(releases[i].Assets) THEN LoopPos(releases, i + 1, 1)
    ELSE [i |-> i, j |-> j]

AtEnd == ri > Len(rs)
CurAsset == rs[ri].Assets[rj]

\* What UpdateAssetsMap does with the result of getReleases: return its
\* error, or enter the loops over rs.
AfterGetReleases(got) ==
    IF got.err /= ""
    THEN [pc |-> "sleep", rs |-> << >>, err |-> got.err]
    ELSE [pc |-> "loop", rs |-> got.releases, err |-> ""]

\* Variant: backgroundUpdate returns when updateAssets fails.
backgroundUpdateStopsOnError(err, log) ==
    IF err /= "" THEN [pc |-> "stopped", logged |-> Append(log, err)]
    ELSE [pc |-> "sleep", logged |-> log]

\* One turn of backgroundUpdate's loop after updateAssets returned err: the
\* error is logged and the loop goes back to time.Sleep.
backgroundUpdate(err, log) ==
    [pc |-> "sleep", logged |-> IF err /= "" THEN Append(log, err) ELSE log]

\* The caller of the n-th updateAssets call: main for the first one, which
\* drops the result and starts backgroundUpdate, and backgroundUpdate after.
updateAssetsReturns(n, err, log) ==
    IF n = 1 THEN [pc |-> "sleep", logged |-> log]
    ELSE backgroundUpdate(err, log)

\* time.Sleep returned (or main reached its first call): updateAssets is
\* called and calls UpdateAssetsMap.
updateAssetsCall ==
    /\ ppc = "sleep"
    /\ ppc' = "list"
    /\ cycles' = cycles + 1
    /\ failedAt' = 0
    /\ startUpdate' = updateAssetsMap
    /\ startLatest' = latestAssetsMap
    /\ UNCHANGED <<catalogVars, mu, rs, ri, rj, perr, logged, listed, resolverVars>>

updateAssets ==
    /\ cycles < MaxCycles
    /\ updateAssetsCall

\* The same call in a run that goes on for MaxPolls calls.
updateAssetsPoll ==
    /\ cycles < MaxPolls
    /\ updateAssetsCall

\* UpdateAssetsMap up to the first asset, on the listing feed whose request
\* of page failAt fails.
UpdateAssetsMapCall(feed, failAt) ==
    /\ ppc = "list"
    /\ LET next == AfterGetReleases(getReleases(feed, failAt))
           pos == LoopPos(next.rs, 1, 1)
           ret == updateAssetsReturns(cycles, next.err, logged)
       IN /\ ppc' = IF next.err /= "" THEN ret.pc ELSE next.pc
          /\ logged' = IF next.err /= "" THEN ret.logged ELSE logged
          /\ rs' = next.rs
          /\ ri' = pos.i
          /\ rj' = pos.j
          /\ perr' = next.err
          /\ failedAt' = failAt
    /\ UNCHANGED <<catalogVars, mu, cycles, startUpdate, startLatest, resolverVars>>

UpdateAssetsMapBegin ==
    /\ \E feed \in Feeds : \E failAt \in 0..(LastPage(feed) + 1) :
         UpdateAssetsMapCall(feed, failAt)
    /\ UNCHANGED listed

\* The same step in a run that records the listing.
UpdateAssetsMapListed ==
    \E feed \in Feeds : \E failAt \in 0..(LastPage(feed) + 1) :
        /\ UpdateAssetsMapCall(feed, failAt)
        /\ listed' = feed

Advance ==
    LET pos == LoopPos(rs, ri, rj + 1)
    IN /\ ri' = pos.i
       /\ rj' = pos.j

SkipAsset ==
    /\ ppc = "loop"
    /\ ~AtEnd
    /\ ~isUpdateAsset(CurAsset.Name)
    /\ Advance
    /\ UNCHANGED <<catalogVars, mu, ppc, rs, perr, cycles, failedAt, startUpdate, startLatest,
                   logged, listed, resolverVars>>

\* g.mu.Lock() at the top of pushAsset.
pushAssetLock ==
    /\ ppc = "loop"
    /\ ~AtEnd
    /\ isUpdateAsset(CurAsset.Name)
    /\ getAssetInfo(CurAsset.Name).ok
    /\ ~mu.writer
    /\ mu.readers = 0
    /\ mu' = [mu EXCEPT !.writer = TRUE]
    /\ ppc' = "push"
    /\ UNCHANGED <<catalogVars, rs, ri, rj, perr, cycles, failedAt, startUpdate, startLatest,
                   logged, listed, resolverVars>>

\* What UpdateAssetsMap does with the result of pushAsset.
AfterPushAsset(err) == IF err /= "" THEN "return" ELSE "continue"

pushAssetBody ==
    /\ ppc = "push"
    /\ \E io \in PushIO :
         LET info == getAssetInfo(CurAsset.Name)
             asset == [CurAsset EXCEPT !.v = rs[ri].Version]
             got == pushAsset(updateAssetsMap, latestAssetsMap,
                              info.OS, info.Arch, asset, io)
         IN /\ updateAssetsMap' = got.um
            /\ latestAssetsMap' = got.lm
            /\ IF AfterPushAsset(got.err) = "return"
               THEN /\ ppc' = updateAssetsReturns(cycles, "push", logged).pc
                    /\ logged' = updateAssetsReturns(cycles, "push", logged).logged
                    /\ perr' = "push"
                    /\ UNCHANGED <<ri, rj>>
               ELSE /\ ppc' = "loop"
                    /\ perr' = perr
                    /\ Advance
                    /\ UNCHANGED logged
    /\ mu' = [mu EXCEPT !.writer = FALSE]
    /\ qseen' = [r \in Resolvers |->
                    IF InCall(r)
                    THEN qseen[r] \cup {PlatformState(updateAssetsMap', latestAssetsMap',
                                                      qp[r][1].OS, qp[r][1].Arch)}
                    ELSE qseen[r]]
    /\ UNCHANGED <<rs, cycles, failedAt, startUpdate, startLatest, listed,
                   qpc, qin, qp, qupdate, qcurrent, qpatch, qres, qerr, qsearched,
                   patchVars>>

UpdateAssetsMapReturn ==
    /\ ppc = "loop"
    /\ AtEnd
    /\ ppc' = updateAssetsReturns(cycles, "", logged).pc
    /\ logged' = updateAssetsReturns(cycles, "", logged).logged
    /\ perr' = ""
    /\ UNCHANGED <<catalogVars, mu, rs, ri, rj, cycles, failedAt, startUpdate, startLatest,
                   listed, resolverVars>>

Poller ==
    \/ updateAssets
    \/ UpdateAssetsMapBegin
    \/ SkipAsset
    \/ pushAssetLock
    \/ pushAssetBody
    \/ UpdateAssetsMapReturn

PollerListed ==
    \/ updateAssetsPoll
    \/ UpdateAssetsMapListed
    \/ SkipAsset
    \/ pushAssetLock
    \/ pushAssetBody
    \/ UpdateAssetsMapReturn

(***************************************************************************)
(* CheckForUpdate.                                                         *)
(***************************************************************************)
ErrNoUpdateAvailable == "No update available"

TagGet(tags, k) == IF k \in DOMAIN tags THEN tags[k] ELSE ""

\* if p.Version < 1 { p.Version = 1 }
CoerceVersion(p) == IF p.Version < 1 THEN [p EXCEPT !.Version = 1] ELSE p

\* Variant: the tags are used only when both of them are set.
TagOverrideBoth(p) ==
    IF TagGet(p.Tags, "os") /= "" /\ TagGet(p.Tags, "arch") /= ""
    THEN [p EXCEPT !.OS = TagGet(p.Tags, "os"), !.Arch = TagGet(p.Tags, "arch")]
    ELSE p

\* Compatibility with go-check: non-empty tags replace p.OS and p.Arch.
TagOverride(p) ==
    [p EXCEPT !.OS = IF TagGet(p.Tags, "os") /= "" THEN TagGet(p.Tags, "os") ELSE @,
              !.Arch = IF TagGet(p.Tags, "arch") /= "" THEN TagGet(p.Tags, "arch") ELSE @]

\* Variant: the platform is checked before the checksum.
ValidatePlatformFirst(p) ==
    IF ~SemverParse(p.AppVersion).ok THEN "Bad version string"
    ELSE IF p.OS = "" THEN "OS is required"
    ELSE IF p.Arch = "" THEN "Arch is required"
    ELSE IF p.Checksum = "" THEN "Checksum must not be nil"
    ELSE ""

\* The four checks, in the order of the code; "" when all pass.
Validate(p) ==
    IF ~SemverParse(p.AppVersion).ok THEN "Bad version string"
    ELSE IF p.Checksum = "" THEN "Checksum must not be nil"
    ELSE IF p.OS = "" THEN "OS is required"
    ELSE IF p.Arch = "" THEN "Arch is required"
    ELSE ""

getProductUpdate(lm, os, arch) ==
    IF ~Has(lm, os) THEN [asset |-> << >>, err |-> "No such OS."]
    ELSE IF ~Has(lm[os], arch) THEN [asset |-> << >>, err |-> "No such Arch."]
    ELSE [asset |-> << lm[os][arch] >>, err |-> ""]

\* The outcomes lookupAssetWithChecksum can have: the range over the version
\* map visits the entries in an unspecified order and returns the first match.
lookupAssetWithChecksum(um, os, arch, checksum) ==
    IF ~Has(um, os) THEN { [asset |-> << >>, err |-> "No such OS."] }
    ELSE IF ~Has(um[os], arch) THEN { [asset |-> << >>, err |-> "No such Arch."] }
    ELSE LET m == um[os][arch]
             hits == { k \in DOMAIN m : m[k].Checksum = checksum }
         IN IF hits = {}
            THEN { [asset |-> << >>,
                    err |-> "Could not find a matching checksum in assets list."] }
            ELSE { [asset |-> << m[k] >>, err |-> ""] : k \in hits }

\* generatePatch: the patch file of (current, update), or an error.
generatePatch(currentURL, updateURL, ok) ==
    IF ok THEN [File |-> << "patch", currentURL, updateURL >>, err |-> ""]
    ELSE [File |-> << >>, err |-> "bsdiff"]

PATCHTYPE_BSDIFF == "bsdiff"
PATCHTYPE_NONE == ""
INITIATIVE_AUTO == "auto"

\* Variant: the signature is left out of the result.
FullResultUnsigned(update) ==
    [Initiative |-> INITIATIVE_AUTO, URL |-> update.URL, PatchURL |-> << >>,
     PatchType |-> PATCHTYPE_NONE, Version |-> VString(update.v),
     Checksum |-> update.Checksum, Signature |-> ""]

\* The result of a full update (no asset has the client's checksum).
FullResult(update) ==
    [Initiative |-> INITIATIVE_AUTO, URL |-> update.URL, PatchURL |-> << >>,
     PatchType |-> PATCHTYPE_NONE, Version |-> VString(update.v),
     Checksum |-> update.Checksum, Signature |-> update.Signature]

\* The result of a patch update.
PatchResult(update, patch) ==
    [Initiative |-> INITIATIVE_AUTO, URL |-> update.URL, PatchURL |-> patch.File,
     PatchType |-> PATCHTYPE_BSDIFF, Version |-> VString(update.v),
     Checksum |-> update.Checksum, Signature |-> update.Signature]

\* The requests clients send; << >> is a nil *Params.
ParamsPool ==
    [Version : {0}, AppVersion : {"0.0.0", "1.0.0", "2.0.0", "banana"},
     OS : {"", "linux"}, Arch : {"", "amd64"},
     Checksum : {"", "aaaa"},
     Tags : {<< >>, [os |-> "darwin"], [os |-> "", arch |-> "amd64"]}]

ParamsPtrs == { << >> } \cup { << p >> : p \in ParamsPool }

Return(r, res, err) ==
    /\ qpc' = [qpc EXCEPT ![r] = "done"]
    /\ qres' = [qres EXCEPT ![r] = res]
    /\ qerr' = [qerr EXCEPT ![r] = err]

\* Lines 297-334: the entry, the tag override and the validation.
CheckForUpdateBegin(r) ==
    /\ qpc[r] = "idle"
    /\ Serving
    /\ \E pp \in ParamsPtrs :
         IF pp = << >>
         THEN \* p.Version is read before the nil check
              /\ qpc' = [qpc EXCEPT ![r] = "panic"]
              /\ qin' = [qin EXCEPT ![r] = pp]
              /\ UNCHANGED <<qp, qres, qerr, qseen>>
         ELSE LET p == TagOverride(CoerceVersion(pp[1]))
                  err == Validate(p)
              IN /\ qin' = [qin EXCEPT ![r] = pp]
                 /\ qp' = [qp EXCEPT ![r] = << p >>]
                 /\ IF err /= ""
                    THEN /\ Return(r, << >>, err)
                         /\ UNCHANGED qseen
                    ELSE /\ qpc' = [qpc EXCEPT ![r] = "get"]
                         /\ qseen' = [qseen EXCEPT ![r] =
                                {PlatformState(updateAssetsMap, latestAssetsMap,
                                               p.OS, p.Arch)}]
                         /\ UNCHANGED <<qres, qerr>>
    /\ UNCHANGED <<catalogVars, mu, pollerVars, qupdate, qcurrent, qpatch, qsearched,
                   patchVars>>

\* g.mu.RLock() of getProductUpdate and of lookupAssetWithChecksum.  The
\* poller at an eligible asset with readers inside may not have called Lock
\* yet, so a further reader may still enter.
RLock(r, from, to) ==
    /\ qpc[r] = from
    /\ ~mu.writer
    /\ mu' = [mu EXCEPT !.readers = @ + 1]
    /\ qpc' = [qpc EXCEPT ![r] = to]
    /\ UNCHANGED <<catalogVars, pollerVars, qin, qp, qupdate, qcurrent, qpatch,
                   qres, qerr, qseen, qsearched, patchVars>>

\* Variant: the read lock is kept on return.
RUnlockKept(m) == m

\* defer g.mu.RUnlock() of getProductUpdate and of lookupAssetWithChecksum.
RUnlock(m) == [m EXCEPT !.readers = @ - 1]

getProductUpdateRLock(r) == RLock(r, "get", "getLocked")

\* Variant: LT in place of LTE.
NoUpdateStrict(update, appVersion) == VCompare(update.v, appVersion) < 0

\* if update.v.LTE(appVersion): no update available.
NoUpdate(update, appVersion) == VLTE(update.v, appVersion)

\* Lines 336-345: getProductUpdate (with its deferred RUnlock) and the
\* comparison with the client's version.
getProductUpdateBody(r) ==
    /\ qpc[r] = "getLocked"
    /\ mu' = RUnlock(mu)
    /\ LET p == qp[r][1]
           got == getProductUpdate(latestAssetsMap, p.OS, p.Arch)
       IN IF got.err /= ""
          THEN /\ Return(r, << >>, "Could not lookup for updates")
               /\ UNCHANGED qupdate
          ELSE /\ qupdate' = [qupdate EXCEPT ![r] = got.asset]
               /\ IF NoUpdate(got.asset[1], SemverParse(p.AppVersion).v)
                  THEN Return(r, << >>, ErrNoUpdateAvailable)
                  ELSE /\ qpc' = [qpc EXCEPT ![r] = "lookup"]
                       /\ UNCHANGED <<qres, qerr>>
    /\ UNCHANGED <<catalogVars, pollerVars, qin, qp, qcurrent, qpatch, qseen, qsearched,
                   patchVars>>

lookupAssetWithChecksumRLock(r) == RLock(r, "lookup", "lookupLocked")

\* Variant: the lookup's error is returned to the caller.
LookupMissIsError(update) == [res |-> << >>, err |-> "Could not lookup current asset"]

\* What CheckForUpdate does when the lookup of the current asset fails.
LookupMiss(update) == [res |-> << FullResult(update) >>, err |-> ""]

\* Lines 347-361: lookupAssetWithChecksum (with its deferred RUnlock) and
\* the full-update result when no asset matches.
lookupAssetWithChecksumBody(r) ==
    /\ qpc[r] = "lookupLocked"
    /\ mu' = RUnlock(mu)
    /\ LET p == qp[r][1]
       IN /\ qsearched' = [qsearched EXCEPT ![r] =
                               Sub(Sub(updateAssetsMap, p.OS), p.Arch)]
          /\ \E got \in lookupAssetWithChecksum(updateAssetsMap, p.OS, p.Arch,
                                                 p.Checksum) :
               IF got.err /= ""
               THEN /\ Return(r, LookupMiss(qupdate[r][1]).res,
                                 LookupMiss(qupdate[r][1]).err)
                    /\ UNCHANGED qcurrent
               ELSE /\ qcurrent' = [qcurrent EXCEPT ![r] = got.asset]
                    /\ qpc' = [qpc EXCEPT ![r] = "patch"]
                    /\ UNCHANGED <<qres, qerr>>
    /\ UNCHANGED <<catalogVars, pollerVars, qin, qp, qupdate, qpatch, qseen, patchVars>>

\* The pair a generatePatch call is about and the name of its patch file.
PatchKey(r) == << qcurrent[r][1].URL, qupdate[r][1].URL >>
PatchFile(key) == generatePatch(key[1], key[2], TRUE).File

\* The pairs whose patch is being computed.
InFlight == { PatchKey(r) : r \in { x \in Resolvers : qpc[x] = "bsdiff" } }

\* Variant: a call never waits for the computation of another call.
generatePatchArrivalAlone(files, inflight, key) ==
    IF PatchFile(key) \in files THEN "cached" ELSE "compute"

\* What a generatePatch call does on entry: return the patch file that is
\* already there, wait for the computation of the pair that is in flight,
\* or compute.
generatePatchArrival(files, inflight, key) ==
    IF PatchFile(key) \in files THEN "cached"
    ELSE IF key \in inflight THEN "join"
    ELSE "compute"

\* Line 366: the call of generatePatch, and lines 367-381 when the patch
\* file is there already.
generatePatchCall(r) ==
    /\ qpc[r] = "patch"
    /\ LET key == PatchKey(r)
           how == generatePatchArrival(patchFiles, InFlight, key)
           patch == [File |-> PatchFile(key)]
       IN CASE how = "cached" ->
                 /\ qpatch' = [qpatch EXCEPT ![r] = << patch >>]
                 /\ Return(r, << PatchResult(qupdate[r][1], patch) >>, "")
                 /\ UNCHANGED <<qran, qlead>>
            [] how = "join" ->
                 /\ qpc' = [qpc EXCEPT ![r] = "joined"]
                 /\ qlead' = [qlead EXCEPT ![r] =
                                 CHOOSE x \in Resolvers :
                                     qpc[x] = "bsdiff" /\ PatchKey(x) = key]
                 /\ UNCHANGED <<qpatch, qres, qerr, qran>>
            [] how = "compute" ->
                 /\ qpc' = [qpc EXCEPT ![r] = "bsdiff"]
                 /\ qran' = [qran EXCEPT ![r] = TRUE]
                 /\ UNCHANGED <<qpatch, qres, qerr, qlead>>
    /\ UNCHANGED <<catalogVars, mu, pollerVars, qin, qp, qupdate, qcurrent, qseen,
                   qsearched, patchFiles>>

\* The computation of r ends: generatePatch returns to r and to the calls
\* that waited for it, and each goes through lines 367-381.
generatePatchReturn(r) ==
    /\ qpc[r] = "bsdiff"
    /\ \E ok \in BOOLEAN :
         LET patch == generatePatch(qcurrent[r][1].URL, qupdate[r][1].URL, ok)
             served == {r} \cup { w \in Resolvers : qpc[w] = "joined" /\ qlead[w] = r }
         IN /\ patchFiles' = IF patch.err = "" THEN patchFiles \cup {patch.File}
                              ELSE patchFiles
            /\ qpc' = [w \in Resolvers |-> IF w \in served THEN "done" ELSE qpc[w]]
            /\ IF patch.err /= ""
               THEN /\ qerr' = [w \in Resolvers |->
                                  IF w \in served THEN "Unable to generate patch"
                                  ELSE qerr[w]]
                    /\ UNCHANGED <<qpatch, qres>>
               ELSE /\ qpatch' = [w \in Resolvers |->
                                    IF w \in served THEN << [File |-> patch.File] >>
                                    ELSE qpatch[w]]
                    /\ qres' = [w \in Resolvers |->
                                  IF w \in served
                                  THEN << PatchResult(qupdate[w][1], patch) >>
                                  ELSE qres[w]]
                    /\ UNCHANGED qerr
    /\ UNCHANGED <<catalogVars, mu, pollerVars, qin, qp, qupdate, qcurrent, qseen,
                   qsearched, qran, qlead>>

Resolver(r) ==
    \/ CheckForUpdateBegin(r)
    \/ getProductUpdateRLock(r)
    \/ getProductUpdateBody(r)
    \/ lookupAssetWithChecksumRLock(r)
    \/ lookupAssetWithChecksumBody(r)
    \/ generatePatchCall(r)
    \/ generatePatchReturn(r)

\* The outcomes of one call CheckForUpdate(p), p not nil, during which the
\* catalog is um, lm throughout: lines 297-382 in sequence.
CheckForUpdateOn(um, lm, pp) ==
    LET p == TagOverride(CoerceVersion(pp))
        err == Validate(p)
        got == getProductUpdate(lm, p.OS, p.Arch)
    IN IF err /= "" THEN { [res |-> << >>, err |-> err] }
       ELSE IF got.err /= ""
       THEN { [res |-> << >>, err |-> "Could not lookup for updates"] }
       ELSE IF NoUpdate(got.asset[1], SemverParse(p.AppVersion).v)
       THEN { [res |-> << >>, err |-> ErrNoUpdateAvailable] }
       ELSE UNION {
              IF cur.err /= "" THEN { LookupMiss(got.asset[1]) }
              ELSE { LET patch == generatePatch(cur.asset[1].URL, got.asset[1].URL, ok)
                     IN IF patch.err /= ""
                        THEN [res |-> << >>, err |-> "Unable to generate patch"]
                        ELSE [res |-> << PatchResult(got.asset[1], patch) >>,
                              err |-> ""] : ok \in BOOLEAN } :
              cur \in lookupAssetWithChecksum(um, p.OS, p.Arch, p.Checksum) }

\* n requests, none of them received yet, and an empty patch directory.
NoRequests(n) ==
    /\ qpc = [r \in 1..n |-> "idle"]
    /\ qin = [r \in 1..n |-> << >>]
    /\ qp = [r \in 1..n |-> << >>]
    /\ qupdate = [r \in 1..n |-> << >>]
    /\ qcurrent = [r \in 1..n |-> << >>]
    /\ qpatch = [r \in 1..n |-> << >>]
    /\ qres = [r \in 1..n |-> << >>]
    /\ qerr = [r \in 1..n |-> ""]
    /\ qseen = [r \in 1..n |-> {}]
    /\ qsearched = [r \in 1..n |-> EmptyMap]
    /\ patchFiles = {}
    /\ qran = [r \in 1..n |-> FALSE]
    /\ qlead = [r \in 1..n |-> 0]

\* The ReleaseManager as NewReleaseManager returns it, before main's call
\* of updateAssets.
Init ==
    /\ updateAssetsMap = EmptyMap
    /\ latestAssetsMap = EmptyMap
    /\ mu = [writer |-> FALSE, readers |-> 0]
    /\ ppc = "sleep"
    /\ rs = << >>
    /\ ri = 1
    /\ rj = 1
    /\ perr = ""
    /\ cycles = 0
    /\ failedAt = 0
    /\ startUpdate = EmptyMap
    /\ startLatest = EmptyMap
    /\ logged = << >>
    /\ listed = << >>
    /\ NoRequests(NumResolvers)

\* main's call of updateAssets on a listing of the releases 1.0.0 and 2.0.0,
\* every download succeeding: the releases it went through and the catalog
\* it left.
FirstRefresh ==
    LET listing == << CHOOSE r \in ReleasePool : r.ID = 1,
                      CHOOSE r \in ReleasePool : r.ID = 2 >>
        rs0 == getReleases(listing, 0).releases
        a(i, j) == [rs0[i].Assets[j] EXCEPT !.v = rs0[i].Version]
        io(c) == [fail |-> "", content |-> c]
        s1 == pushAsset(EmptyMap, EmptyMap, "linux", "amd64", a(1, 1), io("c2"))
        s2 == pushAsset(s1.um, s1.lm, "darwin", "amd64", a(1, 2), io("c2"))
        s3 == pushAsset(s2.um, s2.lm, "linux", "amd64", a(2, 1), io("c1"))
    IN [rs |-> rs0, um |-> s3.um, lm |-> s3.lm]

\* The server when it starts to serve, after that first refresh.
AfterFirstRefresh ==
    /\ updateAssetsMap = FirstRefresh.um
    /\ latestAssetsMap = FirstRefresh.lm
    /\ mu = [writer |-> FALSE, readers |-> 0]
    /\ ppc = "sleep"
    /\ rs = FirstRefresh.rs
    /\ ri = Len(FirstRefresh.rs) + 1
    /\ rj = 1
    /\ perr = ""
    /\ cycles = 1
    /\ failedAt = 0
    /\ startUpdate = EmptyMap
    /\ startLatest = EmptyMap
    /\ logged = << >>
    /\ listed = << >>

\* NumCallers requests arrive while backgroundUpdate sleeps.
InitServing == AfterFirstRefresh /\ NoRequests(NumCallers)

vars == <<updateAssetsMap, latestAssetsMap, mu, pollerVars, resolverVars>>

Next ==
    \/ Poller
    \/ \E r \in Resolvers : Resolver(r)

Spec == Init /\ [][Next]_vars

\* The catalog and its poller alone: no client ever sends a query.
SpecCatalog == Init /\ [][Poller]_vars

\* The requests of NumCallers clients between two poll cycles.
NextServing == \E r \in Resolvers : Resolver(r)
SpecServing == InitServing /\ [][NextServing]_vars

\* The poller alone, its listings recorded, under the fairness that
\* time.Sleep returns and the goroutine of backgroundUpdate is scheduled.
SpecPoller == Init /\ [][PollerListed]_vars /\ WF_vars(updateAssetsPoll)

(***************************************************************************)
(* Properties.                                                             *)
(***************************************************************************)
\* The platforms (os, arch) present in a two-level map.
Platforms(m) == { <<os, arch>> : os \in DOMAIN m, arch \in ArchNames } \cap
                { pl \in OSNames \X ArchNames : Has(Sub(m, pl[1]), pl[2]) }

Refreshed == ppc = "sleep" /\ cycles >= 1
RefreshOK == Refreshed /\ perr = ""
CatalogAsAtStart == updateAssetsMap = startUpdate /\ latestAssetsMap = startLatest

\* C1: after a successful Refresh, for every platform present in either
\* index the latest asset exists and its version is the maximum of the
\* versions stored in the version map of that platform.
C1_LatestIsMax ==
    RefreshOK =>
        \A pl \in Platforms(updateAssetsMap) \cup Platforms(latestAssetsMap) :
            /\ pl \in Platforms(latestAssetsMap)
            /\ pl \in Platforms(updateAssetsMap)
            /\ LET latest == latestAssetsMap[pl[1]][pl[2]]
                   m == updateAssetsMap[pl[1]][pl[2]]
               IN /\ \A k \in DOMAIN m : VCompare(m[k].v, latest.v) <= 0
                  /\ \E k \in DOMAIN m : VCompare(m[k].v, latest.v) = 0

\* C1 witness: a second Refresh succeeded and left a platform with two
\* versions, the older of which was pushed last.
C1_Witness ==
    /\ RefreshOK
    /\ cycles = 2
    /\ Len(rs) = 2
    /\ \E pl \in Platforms(updateAssetsMap) :
         Cardinality(DOMAIN updateAssetsMap[pl[1]][pl[2]]) = 2

\* C2 (as claimed): for every platform, the latest asset is the very record
\* the version map stores under the latest asset's version.
C2_LatestIsStoredRecord ==
    \A pl \in Platforms(latestAssetsMap) :
        LET latest == latestAssetsMap[pl[1]][pl[2]]
            m == Sub(Sub(updateAssetsMap, pl[1]), pl[2])
        IN /\ Has(m, VString(latest.v))
           /\ m[VString(latest.v)] = latest

\* C3 (as claimed): a Refresh that aborted on an asset left both indices as
\* they were when it started.
C3_FailedPushLeavesCatalog ==
    (Refreshed /\ perr = "push") => CatalogAsAtStart

\* C4: when the listing fails at some page, Refresh returns that error and
\* both indices are what they were when the Refresh started.
C4_ListFailureLeavesCatalog ==
    failedAt /= 0 => /\ ppc = "sleep"
                     /\ perr = "list"
                     /\ CatalogAsAtStart

\* C4 witness: the listing failed at a later page, on a non-empty catalog.
C4_Witness ==
    /\ failedAt >= 2
    /\ perr = "list"
    /\ cycles = 2
    /\ Platforms(latestAssetsMap) /= {}

\* The client's version, the checksum it sent and whether the version map
\* the lookup read holds an asset with that checksum.
AppVersionOf(r) == SemverParse(qp[r][1].AppVersion).v
Searched(r) == qpc[r] \in {"patch", "joined", "bsdiff"} \/ (qpc[r] = "done" /\ qupdate[r] /= << >>
                                      /\ qerr[r] /= ErrNoUpdateAvailable)
KnownChecksum(r) ==
    \E k \in DOMAIN qsearched[r] : qsearched[r][k].Checksum = qp[r][1].Checksum

\* C5 (as claimed): the latest asset a query uses and the version map it
\* searches are those of one state the query's platform was in.
C5_QueryReadsOneState ==
    \A r \in Resolvers :
        Searched(r) =>
            [latest |-> qupdate[r], versions |-> qsearched[r]] \in qseen[r]

C7_PatchFields ==
    \A r \in Resolvers :
        (qpc[r] = "done" /\ Searched(r)) =>
            LET populated == /\ qres[r] /= << >>
                             /\ qres[r][1].PatchType = "bsdiff"
                             /\ qres[r][1].PatchURL /= << >>
            IN /\ populated <=> (KnownChecksum(r) /\ qpatch[r] /= << >>)
               /\ populated => qres[r][1].PatchURL = qpatch[r][1].File
               /\ ~KnownChecksum(r) =>
                     /\ qerr[r] = ""
                     /\ qres[r] /= << >>
                     /\ qres[r][1].PatchType = ""
                     /\ qres[r][1].PatchURL = << >>
               /\ (KnownChecksum(r) /\ qpatch[r] = << >>) =>
                     /\ qres[r] = << >>
                     /\ qerr[r] = "Unable to generate patch"

\* C7 witness: a patch result.
C7_Witness ==
    \E r \in Resolvers :
        /\ qpc[r] = "done"
        /\ qres[r] /= << >>
        /\ qres[r][1].PatchType = "bsdiff"
        /\ qcurrent[r] /= qupdate[r]

\* C8: every result has initiative auto and the URL, version, checksum and
\* signature of one asset that was the latest of the queried platform at
\* some moment of the query and is newer than the client's version.
C8_ResultIsOneLatestAsset ==
    \A r \in Resolvers :
        qres[r] /= << >> =>
            /\ qerr[r] = ""
            /\ qres[r][1].Initiative = "auto"
            /\ \E st \in qseen[r] :
                  /\ st.latest /= << >>
                  /\ st.latest[1].OS = qp[r][1].OS
                  /\ st.latest[1].Arch = qp[r][1].Arch
                  /\ qres[r][1].URL = st.latest[1].URL
                  /\ qres[r][1].Version = VString(st.latest[1].v)
                  /\ qres[r][1].Checksum = st.latest[1].Checksum
                  /\ qres[r][1].Signature = st.latest[1].Signature
                  /\ qres[r][1].Checksum /= ""
                  /\ qres[r][1].Signature /= ""
                  /\ VCompare(st.latest[1].v, AppVersionOf(r)) = 1

\* C8 witness: a result of a query during which the platform changed.
C8_Witness ==
    \E r \in Resolvers :
        /\ qres[r] /= << >>
        /\ Cardinality(qseen[r]) > 1
        /\ latestAssetsMap[qp[r][1].OS][qp[r][1].Arch] /= qupdate[r][1]

\* The fields the checks apply to: the caller's, with non-empty tags in
\* place of os and arch.
EffectiveOS(r) ==
    IF "os" \in DOMAIN qin[r][1].Tags /\ qin[r][1].Tags["os"] /= ""
    THEN qin[r][1].Tags["os"] ELSE qin[r][1].OS
EffectiveArch(r) ==
    IF "arch" \in DOMAIN qin[r][1].Tags /\ qin[r][1].Tags["arch"] /= ""
    THEN qin[r][1].Tags["arch"] ELSE qin[r][1].Arch

\* The checks that fail for r's query, numbered in the order of the claim.
FailingChecks(r) ==
    { n \in 1..4 :
        \/ n = 1 /\ qin[r][1].AppVersion \notin {"0.0.0", "1.0.0", "1.0.0+b", "2.0.0"}
        \/ n = 2 /\ qin[r][1].Checksum = ""
        \/ n = 3 /\ EffectiveOS(r) = ""
        \/ n = 4 /\ EffectiveArch(r) = "" }

ValidationErrors ==
    << "Bad version string", "Checksum must not be nil", "OS is required",
       "Arch is required" >>

\* C9: a query with non-nil parameters returns the error of the first
\* failing check in the order version, checksum, os, arch (on the fields
\* after the tag override), having read nothing of the catalog and
\* generated no patch; with no failing check it returns none of these
\* errors.
C9_ValidationOrder ==
    \A r \in Resolvers :
        qin[r] /= << >> =>
            IF FailingChecks(r) /= {}
            THEN LET first == CHOOSE n \in FailingChecks(r) :
                                  \A m \in FailingChecks(r) : n <= m
                 IN /\ qpc[r] = "done"
                    /\ qerr[r] = ValidationErrors[first]
                    /\ qres[r] = << >>
                    /\ qupdate[r] = << >>
                    /\ qcurrent[r] = << >>
                    /\ qpatch[r] = << >>
                    /\ qseen[r] = {}
                    /\ qsearched[r] = EmptyMap
            ELSE \A n \in 1..4 : qerr[r] /= ValidationErrors[n]

\* C9 witness: a query with an empty checksum and, after the tag override,
\* an empty arch: the checksum error is the one returned.
C9_Witness ==
    \E r \in Resolvers :
        /\ qpc[r] = "done"
        /\ FailingChecks(r) = {2, 4}
        /\ qin[r][1].OS = ""
        /\ qp[r][1].OS = "darwin"
        /\ qerr[r] = "Checksum must not be nil"

\* C10 (as claimed): a call of CheckForUpdate never panics; with nil
\* parameters it returns an error.
C10_NeverPanics ==
    \A r \in Resolvers :
        /\ qpc[r] /= "panic"
        /\ (qpc[r] = "done" /\ qin[r] = << >>) => qerr[r] /= ""

\* The assets a catalog state holds, in either index.
StoredAssets ==
    UNION { { updateAssetsMap[pl[1]][pl[2]][k] :
                k \in DOMAIN updateAssetsMap[pl[1]][pl[2]] } :
            pl \in Platforms(updateAssetsMap) }
LatestAssets == { latestAssetsMap[pl[1]][pl[2]] : pl \in Platforms(latestAssetsMap) }

\* C12 (as claimed): every asset of the catalog has a version, an OS, an
\* Arch, a local file, a checksum and a signature, none of them empty.
C12_AssetFieldsNonEmpty ==
    \A a \in StoredAssets \cup LatestAssets :
        /\ ~VEQ(a.v, emptyVersion)
        /\ a.OS /= ""
        /\ a.Arch /= ""
        /\ a.LocalFile /= ""
        /\ a.Checksum /= ""
        /\ a.Signature /= ""

\* C13 (as claimed): on every platform, two entries of the version map
\* stored under different versions have different checksums.
C13_ChecksumsUnique ==
    \A pl \in Platforms(updateAssetsMap) :
        LET m == updateAssetsMap[pl[1]][pl[2]]
        IN \A k1, k2 \in DOMAIN m :
              m[k1].Checksum = m[k2].Checksum => k1 = k2

\* C14 (as claimed): on every platform that has a latest asset, the lookup
\* of the latest asset's checksum has one outcome, the asset that
\* getProductUpdate returns.
C14_LatestFoundByChecksum ==
    \A pl \in Platforms(latestAssetsMap) :
        lookupAssetWithChecksum(updateAssetsMap, pl[1], pl[2],
                                latestAssetsMap[pl[1]][pl[2]].Checksum)
          = { [asset |-> getProductUpdate(latestAssetsMap, pl[1], pl[2]).asset,
               err |-> ""] }

\* The version keys stored for a platform.
VersionKeys(um, os, arch) == DOMAIN Sub(Sub(um, os), arch)

\* C15: no step removes a version key from the version map of a platform
\* or unsets the latest asset of a platform.
C15_NothingDeleted ==
    [][\A os \in OSNames, arch \in ArchNames :
          /\ VersionKeys(updateAssetsMap, os, arch)
                \subseteq VersionKeys(updateAssetsMap', os, arch)
          /\ Has(Sub(latestAssetsMap, os), arch)
                => Has(Sub(latestAssetsMap', os), arch)]_vars

\* C15 witness: a second Refresh succeeded on a listing without releases,
\* a client query returned, and the catalog still holds its assets.
C15_Witness ==
    /\ RefreshOK
    /\ cycles = 2
    /\ rs = << >>
    /\ \E r \in Resolvers : qpc[r] = "done" /\ qupdate[r] /= << >>
    /\ \E pl \in Platforms(latestAssetsMap) :
          VersionKeys(updateAssetsMap, pl[1], pl[2]) /= {}

\* C19 (as claimed): when the version map the lookup read holds assets with
\* the client's checksum below the latest version, the current asset is the
\* newest of them.
C19_NewestBelowLatest ==
    \A r \in Resolvers :
        qcurrent[r] /= << >> =>
            LET m == qsearched[r]
                below == { k \in DOMAIN m :
                             /\ m[k].Checksum = qp[r][1].Checksum
                             /\ VCompare(m[k].v, qupdate[r][1].v) = -1 }
            IN below /= {} =>
                 /\ VString(qcurrent[r][1].v) \in below
                 /\ \A k \in below : VCompare(m[k].v, qcurrent[r][1].v) <= 0

\* The page of the listing that serves the k-th release.
PageOf(k) == (k - 1) \div PerPage + 1

\* The releases of a listing whose tag is a semantic version.
SemverTagged(feed) == { k \in 1..Len(feed) : SemverParse(feed[k].TagName).ok }

\* Every eligible asset of the k-th listed release is stored under the
\* platform of its name and the version of the release tag.
Upserted(feed, k) ==
    \A n \in 1..Len(feed[k].Assets) :
        LET a == feed[k].Assets[n]
            info == getAssetInfo(a.Name)
            key == VString(SemverParse(feed[k].TagName).v)
        IN isUpdateAsset(a.Name) =>
              /\ Has(Sub(Sub(updateAssetsMap, info.OS), info.Arch), key)
              /\ updateAssetsMap[info.OS][info.Arch][key].id = a.ID

\* C17 (as claimed): when a Refresh of a listing with a release that is not
\* semantically versioned returns, it has succeeded, no asset of that
\* release is in the catalog, and the eligible assets of the semver-tagged
\* releases of the same page are upserted.
C17_NonSemverDropped ==
    \A k \in 1..Len(listed) :
        (RefreshOK /\ k \notin SemverTagged(listed)) =>
            /\ \A n \in 1..Len(listed[k].Assets) :
                  \A a \in StoredAssets \cup LatestAssets :
                      a.id /= listed[k].Assets[n].ID
            /\ \A k2 \in SemverTagged(listed) :
                  PageOf(k2) = PageOf(k) => Upserted(listed, k2)

\* C18 (as claimed): a listing that did not fail returns the semver-tagged
\* releases of all its pages.
C18_AllPagesReturned ==
    (cycles >= 1 /\ failedAt = 0) =>
        { rs[k].id : k \in 1..Len(rs) }
          = { listed[k].ID : k \in SemverTagged(listed) }

\* The n-th updateAssets call returned an error and its caller is back at
\* time.Sleep.
CycleFailed(n) == ppc = "sleep" /\ cycles = n /\ perr /= ""

\* This step ends a call of updateAssets.
CycleEnds == ppc \in {"list", "loop", "push"} /\ ppc' \notin {"list", "loop", "push"}

\* Every eligible asset of the releases UpdateAssetsMap went through is
\* stored under its platform and version.
RsUpserted ==
    \A i \in 1..Len(rs) : \A j \in 1..Len(rs[i].Assets) :
        LET a == rs[i].Assets[j]
            info == getAssetInfo(a.Name)
            key == VString(rs[i].Version)
        IN isUpdateAsset(a.Name) =>
              /\ Has(Sub(Sub(updateAssetsMap, info.OS), info.Arch), key)
              /\ updateAssetsMap[info.OS][info.Arch][key].id = a.id

Untagged(p) ==
    [p EXCEPT !.OS = IF "os" \in DOMAIN p.Tags /\ p.Tags["os"] /= ""
                     THEN p.Tags["os"] ELSE @,
              !.Arch = IF "arch" \in DOMAIN p.Tags /\ p.Tags["arch"] /= ""
                       THEN p.Tags["arch"] ELSE @,
              !.Tags = << >>]

\* A catalog that holds one platform in the state ps.
CatalogOf(ps, os, arch) ==
    [um |-> Put(EmptyMap, os, Put(EmptyMap, arch, ps.versions)),
     lm |-> IF ps.latest = << >> THEN EmptyMap
            ELSE Put(EmptyMap, os, Put(EmptyMap, arch, ps.latest[1]))]

\* C16: on the current catalog, a query has the outcomes of the same query
\* without tags whose os and arch are the non-empty tag values, an empty or
\* absent tag leaving the top-level field as sent; and a call that returned
\* while its platform stayed in one state returned an outcome of that
\* untagged query on that state.
C16_TagsOverride ==
    \A r \in Resolvers :
        qin[r] /= << >> =>
            /\ CheckForUpdateOn(updateAssetsMap, latestAssetsMap, qin[r][1])
                 = CheckForUpdateOn(updateAssetsMap, latestAssetsMap,
                                    Untagged(qin[r][1]))
            /\ (qpc[r] = "done" /\ Cardinality(qseen[r]) <= 1) =>
                  LET u == Untagged(qin[r][1])
                      cat == IF qseen[r] = {}
                             THEN [um |-> EmptyMap, lm |-> EmptyMap]
                             ELSE CatalogOf(CHOOSE ps \in qseen[r] : TRUE,
                                            u.OS, u.Arch)
                  IN [res |-> qres[r], err |-> qerr[r]]
                        \in CheckForUpdateOn(cat.um, cat.lm, u)

\* C16 witness: a query sent for linux with the tag os = darwin returned the
\* update of darwin.
C16_Witness ==
    \E r \in Resolvers :
        /\ qpc[r] = "done"
        /\ qin[r] /= << >>
        /\ qin[r][1].OS = "linux"
        /\ TagGet(qin[r][1].Tags, "os") = "darwin"
        /\ qres[r] /= << >>
        /\ qupdate[r][1].OS = "darwin"

\* r1 and r2 called generatePatch for the same (current, update) pair.
SamePair(r1, r2) ==
    /\ qcurrent[r1] /= << >>
    /\ qcurrent[r2] /= << >>
    /\ PatchKey(r1) = PatchKey(r2)

\* The state part of C11.
OneComputationPerPair ==
    /\ \A r1, r2 \in Resolvers :
          (qpc[r1] = "bsdiff" /\ qpc[r2] = "bsdiff" /\ SamePair(r1, r2)) => r1 = r2
    /\ \A w \in Resolvers :
          qlead[w] /= 0 =>
              /\ ~qran[w]
              /\ qran[qlead[w]]
              /\ SamePair(w, qlead[w])
              /\ qpc[w] = "done" =>
                    /\ qpc[qlead[w]] = "done"
                    /\ qerr[w] = qerr[qlead[w]]
                    /\ qpatch[w] = qpatch[qlead[w]]
    /\ \A r1, r2 \in Resolvers :
          (SamePair(r1, r2) /\ qpatch[r1] /= << >> /\ qpatch[r2] /= << >>) =>
              /\ qres[r1][1].PatchURL = qres[r2][1].PatchURL
              /\ (qran[r1] /\ qran[r2]) => r1 = r2

\* C11: two computations of the same pair are never in flight together; a
\* request that calls generatePatch while a computation of its pair is in
\* flight waits for it and computes nothing, so the requests concurrent with
\* a computation cause that one computation and return what it returns; a
\* request computes only when no patch file of the pair exists and none is
\* being computed; all the requests of a pair that get a patch get the same
\* patch path, computed once.
C11_Coalesced ==
    [][/\ OneComputationPerPair'
       /\ \A r \in Resolvers :
             /\ (qran'[r] /\ ~qran[r]) =>
                   /\ PatchKey(r) \notin InFlight
                   /\ PatchFile(PatchKey(r)) \notin patchFiles
             /\ (qpc[r] = "patch" /\ qpc'[r] /= "patch" /\ PatchKey(r) \in InFlight) =>
                   /\ qpc'[r] = "joined"
                   /\ ~qran'[r]]_vars

\* C11 witness: two requests of the same pair returned the same patch path;
\* one computed it and the other waited for that computation.
C11_Witness ==
    \E r1, r2 \in Resolvers :
        /\ r1 /= r2
        /\ qpc[r1] = "done"
        /\ qpc[r2] = "done"
        /\ qran[r1]
        /\ qlead[r2] = r1
        /\ qres[r1] /= << >>
        /\ qres[r2] /= << >>
        /\ qres[r1][1].PatchURL = qres[r2][1].PatchURL
        /\ qres[r1][1].PatchURL /= << >>

\* This step is the return of pushAsset: its deferred Unlock.
pushAssetReturns == mu.writer /\ ~mu'.writer

\* C21: the catalog changes only in the step in which pushAsset returns and
\* releases the write lock it held.  When pushAsset returns an error, both
\* indices are as they were; when it returns nil, the version map of the
\* platform holds the asset, with its checksum and signature, under the
\* version of its release, the latest asset of the platform is that asset
\* when there was none or an older one and is as it was otherwise, and
\* nothing else has changed.
C21_UpsertAllOrNothing ==
    [][IF ~pushAssetReturns
       THEN UNCHANGED catalogVars
       ELSE LET info == getAssetInfo(CurAsset.Name)
                key == VString(rs[ri].Version)
                had == Has(Sub(latestAssetsMap, info.OS), info.Arch)
            IN IF perr' = "push"
               THEN UNCHANGED catalogVars
               ELSE /\ Has(Sub(Sub(updateAssetsMap', info.OS), info.Arch), key)
                    /\ LET stored == updateAssetsMap'[info.OS][info.Arch][key]
                       IN /\ stored.id = CurAsset.id
                          /\ stored.v = rs[ri].Version
                          /\ stored.Checksum /= ""
                          /\ stored.Signature /= ""
                          /\ latestAssetsMap'[info.OS][info.Arch] =
                                IF ~had \/ VCompare(stored.v,
                                       latestAssetsMap[info.OS][info.Arch].v) = 1
                                THEN stored
                                ELSE latestAssetsMap[info.OS][info.Arch]
                    /\ \A os \in OSNames, arch \in ArchNames :
                          /\ \A k \in VersionKeys(updateAssetsMap, os, arch) :
                                <<os, arch, k>> /= <<info.OS, info.Arch, key>> =>
                                    updateAssetsMap'[os][arch][k]
                                        = updateAssetsMap[os][arch][k]
                          /\ VersionKeys(updateAssetsMap', os, arch) =
                                VersionKeys(updateAssetsMap, os, arch) \cup
                                (IF <<os, arch>> = <<info.OS, info.Arch>>
                                 THEN {key} ELSE {})
                          /\ <<os, arch>> /= <<info.OS, info.Arch>> =>
                                PlatformState(updateAssetsMap', latestAssetsMap', os, arch)
                                  = PlatformState(updateAssetsMap, latestAssetsMap, os, arch)]_vars

\* C21 witness: in its second call UpdateAssetsMap stored an asset and then
\* a pushAsset failed on an asset with a version.
C21_Witness ==
    /\ Refreshed
    /\ perr = "push"
    /\ cycles = 2
    /\ ~VEQ(rs[ri].Version, emptyVersion)
    /\ updateAssetsMap /= startUpdate

\* The poller is in g.mu.Lock() of pushAsset, or about to call it.
WriterWaits == ppc = "loop" /\ ~AtEnd /\ isUpdateAsset(CurAsset.Name)

\* The resolvers inside getProductUpdate or lookupAssetWithChecksum.
Readers == { r \in Resolvers : qpc[r] \in {"getLocked", "lookupLocked"} }

\* A step of the server other than the entry of a new reader while the
\* poller waits for the write lock (sync.RWMutex lets no new reader in once
\* Lock is called).
StepPastWriter ==
    \/ Poller
    \/ \E r \in Resolvers :
          /\ ~(WriterWaits /\ qpc[r] \in {"get", "lookup"})
          /\ Resolver(r)

\* Nothing is left to do: every request has returned (or panicked) and the
\* poller sleeps after the last call of the run.
Terminal ==
    /\ ppc = "sleep"
    /\ cycles >= MaxCycles
    /\ \A r \in Resolvers : qpc[r] \in {"done", "panic"}

=============================================================================
